---- MODULE Spec2Model ----
(***************************************************************************)
(* A model of savefile.js (src/src/index.ts): the Savefile element graph,  *)
(* its two mutators, the format sniffer and the legacy, official and       *)
(* Binary-V1 codecs.                                                       *)
(*                                                                         *)
(* Representation.  A JavaScript string is the sequence of its UTF-8 bytes.*)
(* A reference to an element object is the element's 1-based position in   *)
(* the elements array of its graph (0 is null/undefined); the element's    *)
(* id field is a separate, 0-based number.  A Map is the sequence of its   *)
(* entries in insertion order.                                             *)
(***************************************************************************)
EXTENDS Integers, Sequences, FiniteSets, TLC

(*************************** bounds of the model ***************************)
MaxElements == 2      \* elements a graph is grown to by addElement
MaxRecipes == 2       \* recipe pairs a graph is grown to by addRecipe

(******************************* strings ***********************************)
Water == <<87, 97, 116, 101, 114>>
Nothing == <<78, 111, 116, 104, 105, 110, 103>>
Seven == <<55>>                        \* the text "7", an integer-like object key
ProtoKey == <<95, 95, 112, 114, 111, 116, 111, 95, 95>>   \* "__proto__"
Drop == <<240, 159, 146, 167>>         \* the droplet emoji
EmptyString == <<>>
DEFAULT_EMOJI == <<226, 172, 156>>
SaveFileName == <<83, 97, 118, 101, 32, 70, 105, 108, 101>>  \* "Save File"

Texts == {Water, Nothing, Seven, ProtoKey}
Emojis == {Drop, EmptyString}

ICB2_HEADER == <<73, 67, 66, 31>>
ICB1_HEADER == <<21, 241, 81, 83>>

(************************** sequence helpers *******************************)
Range(s) == {s[i] : i \in DOMAIN s}

Take(s, n) == SubSeq(s, 1, IF n < Len(s) THEN n ELSE Len(s))

(* the concatenation of the sequences of ss, in order *)
RECURSIVE Flatten(_)
Flatten(ss) ==
  IF ss = <<>> THEN <<>>
  ELSE IF Len(ss) = 1 THEN ss[1]
  ELSE Flatten(SubSeq(ss, 1, Len(ss) \div 2))
         \o Flatten(SubSeq(ss, (Len(ss) \div 2) + 1, Len(ss)))

RECURSIVE SumSeq(_)
SumSeq(s) == IF s = <<>> THEN 0 ELSE Head(s) + SumSeq(Tail(s))

(* Map.has / Map.get / Map.set on a sequence of [key, value] entries *)
MapHas(m, k) == \E i \in DOMAIN m : m[i].key = k

MapGet(m, k) == m[CHOOSE i \in DOMAIN m : m[i].key = k].value

MapSet(m, k, v) ==
  IF MapHas(m, k)
  THEN [i \in DOMAIN m |-> IF m[i].key = k THEN [key |-> k, value |-> v] ELSE m[i]]
  ELSE Append(m, [key |-> k, value |-> v])

(***************************** the Savefile ********************************)
DefaultOptions == [generateElementUses |-> TRUE, generateReverseRecipeMap |-> TRUE]

ZeroStats == [elements |-> 0, discoveries |-> 0, recipes |-> 0]

(* constructor: new Savefile(options) *)
NewSavefile(options) ==
  [name |-> SaveFileName,
   elements |-> <<>>,
   elementNames |-> <<>>,
   reverseRecipeMap |-> <<>>,
   type |-> "null",
   options |-> options,
   stats |-> ZeroStats]

(* clear(): the options are kept, name is kept, everything else is reset *)
clear(s) ==
  [s EXCEPT !.elements = <<>>, !.elementNames = <<>>, !.reverseRecipeMap = <<>>,
            !.type = "null", !.stats = ZeroStats]

NewElement(id, text, emoji, discovery) ==
  [id |-> id, text |-> text, emoji |-> emoji, discovery |-> discovery,
   recipes |-> <<>>, uses |-> <<>>]

(* addElement(text, emoji, discovery): the graph after the call and the      *)
(* reference it returns                                                      *)
addElementAlways(s, text, emoji, discovery) ==
  [sf |-> [s EXCEPT
             !.elements = Append(@, NewElement(Len(s.elements), text, emoji, discovery)),
             !.elementNames = MapSet(@, text, Len(s.elements) + 1),
             !.stats.elements = @ + 1,
             !.stats.discoveries = IF discovery THEN @ + 1 ELSE @],
   ret |-> Len(s.elements) + 1]

(* addElement without the elementNames lookup of lines 178-179 *)
addElementNoLookup(s, text, emoji, discovery) ==
  addElementAlways(s, text, emoji, discovery)

addElement(s, text, emoji, discovery) ==
  IF MapHas(s.elementNames, text)
  THEN [sf |-> s, ret |-> MapGet(s.elementNames, text)]
  ELSE addElementAlways(s, text, emoji, discovery)

(* the tail of addRecipe and of the three decoders' inner loops: push the    *)
(* pair on the result, count it, record it in the reverse map and in the     *)
(* two use lists                                                             *)
PushUses(elements, a, b, result) ==
  LET e1 == [elements EXCEPT ![a].uses = Append(@, [other |-> b, result |-> result])]
  IN [e1 EXCEPT ![b].uses = Append(@, [other |-> a, result |-> result])]

pushRecipe(s, a, b, result) ==
  LET withPair == [s.elements EXCEPT ![result].recipes = Append(@, [a |-> a, b |-> b])]
      k == Len(withPair[result].recipes)
  IN [s EXCEPT
        !.elements = IF s.options.generateElementUses
                     THEN PushUses(withPair, a, b, result) ELSE withPair,
        !.stats.recipes = @ + 1,
        !.reverseRecipeMap =
           IF s.options.generateReverseRecipeMap
           THEN Append(@, [key |-> <<result, k>>, value |-> result]) ELSE @]

(* addRecipe(a, b, result) *)
addRecipe(s, a, b, result) ==
  IF a = 0 \/ b = 0 \/ result = 0 THEN s
  ELSE IF \E i \in DOMAIN s.elements[result].recipes :
             /\ s.elements[result].recipes[i].a = a
             /\ s.elements[result].recipes[i].b = b
       THEN s
       ELSE pushRecipe(s, a, b, result)

(* this.stats.elements = this.elements.length, the last step of a decoder *)
countElements(s) == [s EXCEPT !.stats.elements = Len(s.elements)]

(***************************** the sniffer *********************************)
Undefined == 0 - 1     \* what an out-of-range typed-array read gives

(* raw[i] of a Uint8Array, i counted from 0 *)
ByteAt(raw, i) == IF i >= 0 /\ i < Len(raw) THEN raw[i + 1] ELSE Undefined

(* a prefix comparison that stops at the end of the buffer *)
FindMismatchAvailable(header, raw) ==
  IF \E i \in DOMAIN header : i <= Len(raw) /\ raw[i] # header[i]
  THEN header[CHOOSE i \in DOMAIN header :
                /\ i <= Len(raw) /\ raw[i] # header[i]
                /\ \A j \in 1..(i - 1) : raw[j] = header[j]]
  ELSE Undefined

(* header.find((x, i) => raw[i] != x): the first header byte that differs,   *)
(* or undefined                                                              *)
FindMismatch(header, raw) ==
  IF \E i \in DOMAIN header : ByteAt(raw, i - 1) # header[i]
  THEN header[CHOOSE i \in DOMAIN header :
                /\ ByteAt(raw, i - 1) # header[i]
                /\ \A j \in 1..(i - 1) : ByteAt(raw, j - 1) = header[j]]
  ELSE Undefined

Falsy(v) == v = Undefined \/ v = 0

getSaveFileType(raw) ==
  IF ByteAt(raw, 0) = 31 /\ ByteAt(raw, 1) = 139 THEN "official"
  ELSE IF ByteAt(raw, 0) = 123 THEN "legacy"
  ELSE IF Falsy(FindMismatch(ICB2_HEADER, raw)) THEN "binaryV2"
  ELSE IF Falsy(FindMismatch(ICB1_HEADER, raw)) THEN "binaryV1"
  ELSE "null"

(**************************** shared primitives ****************************)
RECURSIVE BitOr(_, _)
BitOr(x, y) ==
  IF x = 0 THEN y
  ELSE IF y = 0 THEN x
  ELSE (IF x % 2 = 1 \/ y % 2 = 1 THEN 1 ELSE 0) + 2 * BitOr(x \div 2, y \div 2)

(* (BigInt(hi) << 24n) | BigInt(lo) with the larger id in the high bits;     *)
(* the ids of the model are far below 128, so the key stays a small integer  *)
pair2int(a, b) ==
  IF a > b THEN BitOr(a * 16777216, b) ELSE BitOr(b * 16777216, a)

(****************************** legacy codec *******************************)
(* Own-property order of a JavaScript object: canonical array-index keys in  *)
(* ascending numeric order, then the other keys in creation order.           *)
IsDigits(key) == key # <<>> /\ \A i \in DOMAIN key : key[i] \in 48..57

(* the order of two digit strings of equal length *)
RECURSIVE DigitsLess(_, _)
DigitsLess(k1, k2) ==
  IF k1 = <<>> THEN FALSE
  ELSE IF Head(k1) # Head(k2) THEN Head(k1) < Head(k2)
  ELSE DigitsLess(Tail(k1), Tail(k2))

(* numeric order of two canonical index keys *)
IndexLess(k1, k2) ==
  Len(k1) < Len(k2) \/ (Len(k1) = Len(k2) /\ DigitsLess(k1, k2))

MaxArrayIndex == <<52, 50, 57, 52, 57, 54, 55, 50, 57, 52>>   \* "4294967294"

IsArrayIndex(key) ==
  /\ IsDigits(key)
  /\ Len(key) = 1 \/ key[1] # 48
  /\ key = MaxArrayIndex \/ IndexLess(key, MaxArrayIndex)

ObjDefine(obj, key, value) ==
  IF MapHas(obj, key) THEN MapSet(obj, key, value)
  ELSE IF ~IsArrayIndex(key) THEN Append(obj, [key |-> key, value |-> value])
  ELSE LET before == {i \in DOMAIN obj :
                        IsArrayIndex(obj[i].key) /\ IndexLess(obj[i].key, key)}
           n == Cardinality(before)
       IN SubSeq(obj, 1, n) \o <<[key |-> key, value |-> value]>>
            \o SubSeq(obj, n + 1, Len(obj))

(* out.recipes[key] = value on a plain object: the key "__proto__" reaches   *)
(* the prototype setter and creates no own property                          *)
ObjAssign(obj, key, value) ==
  IF key = ProtoKey THEN obj ELSE ObjDefine(obj, key, value)

(* an element entry that never carries the discovered flag *)
LegacyElementEntryNoFlag(element) ==
  [text |-> element.text, emoji |-> element.emoji]

LegacyElementEntry(element) ==
  IF element.discovery
  THEN [text |-> element.text, emoji |-> element.emoji, discovered |-> TRUE]
  ELSE [text |-> element.text, emoji |-> element.emoji]

LegacyPairEntry(elements, recipe) ==
  <<[text |-> elements[recipe.a].text, emoji |-> elements[recipe.a].emoji],
    [text |-> elements[recipe.b].text, emoji |-> elements[recipe.b].emoji]>>

RECURSIVE LegacyRecipesObject(_, _, _)
LegacyRecipesObject(elements, i, obj) ==
  IF i > Len(elements) THEN obj
  ELSE LegacyRecipesObject(elements, i + 1,
         IF Len(elements[i].recipes) > 0
         THEN ObjAssign(obj, elements[i].text,
                        [k \in DOMAIN elements[i].recipes |->
                           LegacyPairEntry(elements, elements[i].recipes[k])])
         ELSE obj)

(* encodeLegacy(): the value JSON.stringify serialises.  A property whose    *)
(* value is undefined is left out of the text, so it is left out here.       *)
encodeLegacy(s) ==
  [fmt |-> "json",
   value |-> [elements |-> [i \in DOMAIN s.elements |-> LegacyElementEntry(s.elements[i])],
              recipes |-> LegacyRecipesObject(s.elements, 1, <<>>)]]

Truthy(entry, field) == field \in DOMAIN entry /\ entry[field] = TRUE

EmojiArg(entry) == IF "emoji" \in DOMAIN entry THEN entry.emoji ELSE DEFAULT_EMOJI

RECURSIVE legacyElements(_, _)
legacyElements(s, entries) ==
  IF entries = <<>> THEN s
  ELSE LET e == Head(entries) IN
       legacyElements(
         IF e.text = Nothing THEN s
         ELSE addElement(s, e.text, EmojiArg(e), Truthy(e, "discovered")).sf,
         Tail(entries))

RECURSIVE legacyPairs(_, _, _, _)
legacyPairs(s, result, pairs, recipes) ==
  IF recipes = <<>> THEN s
  ELSE LET itemA == Head(recipes)[1]
           itemB == Head(recipes)[2]
       IN IF itemA.text = Nothing \/ itemB.text = Nothing
          THEN legacyPairs(s, result, pairs, Tail(recipes))
          ELSE LET ra == addElement(s, itemA.text, EmojiArg(itemA), FALSE)
                   rb == addElement(ra.sf, itemB.text, EmojiArg(itemB), FALSE)
                   pairId == pair2int(rb.sf.elements[ra.ret].id, rb.sf.elements[rb.ret].id)
               IN IF pairId \in pairs
                  THEN legacyPairs(rb.sf, result, pairs, Tail(recipes))
                  ELSE legacyPairs(pushRecipe(rb.sf, ra.ret, rb.ret, result), result,
                                   pairs \cup {pairId}, Tail(recipes))

RECURSIVE legacyRecipes(_, _)
legacyRecipes(s, obj) ==
  IF obj = <<>> THEN s
  ELSE LET text == Head(obj).key
           recipes == Head(obj).value
       IN IF Len(recipes) < 1 \/ text = Nothing
          THEN legacyRecipes(s, Tail(obj))
          ELSE LET r == addElement(s, text, DEFAULT_EMOJI, FALSE)
               IN legacyRecipes(legacyPairs(r.sf, r.ret, {}, recipes), Tail(obj))

(* decodeLegacy(raw) on a fresh Savefile *)
decodeLegacy(raw, options) ==
  LET data == raw.value
      s0 == [NewSavefile(options) EXCEPT !.type = "legacy"]
      s1 == legacyElements(s0, IF "elements" \in DOMAIN data THEN data.elements ELSE <<>>)
  IN countElements(
       legacyRecipes(s1, IF "recipes" \in DOMAIN data THEN data.recipes ELSE <<>>))

(***************************** Binary-V1 codec *****************************)
(* 32-bit arithmetic.  A JavaScript number the code feeds to `&`, `|`, `<<`  *)
(* or `>>>` is first reduced to 32 bits; the model's numbers stay within     *)
(* the signed 32-bit range, and a 32-bit pattern is held as two 16-bit       *)
(* halves [hi, lo].                                                          *)
Int32OfHalves(w) ==
  IF w.hi >= 32768 THEN (w.hi - 65536) * 65536 + w.lo ELSE w.hi * 65536 + w.lo

(* value >>> 7 for a signed 32-bit value *)
Ushr7(value) ==
  IF value >= 0 THEN value \div 128 ELSE 33554432 + (value \div 128)

(* (x << shift) for 0 <= x <= 127, the shift count taken modulo 32 *)
Shl32(x, shift) ==
  LET k == shift % 32
  IN IF k < 16
     THEN [hi |-> ((x * 2 ^ k) \div 65536) % 65536, lo |-> (x * 2 ^ k) % 65536]
     ELSE [hi |-> (x * 2 ^ (k - 16)) % 65536, lo |-> 0]

Or32(v, w) == [hi |-> BitOr(v.hi, w.hi), lo |-> BitOr(v.lo, w.lo)]

(* encodeLEB128(value, out): the numbers it pushes on out.  `value & ~127`   *)
(* is 0 exactly for 0..127; `(value & 127) | 128` keeps the low seven bits.  *)
RECURSIVE encodeLEB128(_)
encodeLEB128(value) ==
  IF value \in 0..127 THEN <<value>>
  ELSE <<(value % 128) + 128>> \o encodeLEB128(Ushr7(value))

(* decodeLEB128(read): the value and the number of bytes consumed so far.    *)
(* A read past the end gives undefined, which `&` treats as 0.               *)
RECURSIVE lebLoop(_, _, _, _)
lebLoop(buf, pos, value, shift) ==
  LET byte == ByteAt(buf, pos)
      low == IF byte = Undefined THEN 0 ELSE byte % 128
      v == Or32(value, Shl32(low, shift))
  IN IF byte = Undefined \/ byte < 128
     THEN [value |-> Int32OfHalves(v), pos |-> pos + 1]
     ELSE lebLoop(buf, pos + 1, v, shift + 7)

decodeLEB128(buf, pos) == lebLoop(buf, pos, [hi |-> 0, lo |-> 0], 0)

(* encodeString(str, out) *)
encodeString(str) == LET enc == Take(str, 255) IN <<Len(enc)>> \o enc

(* decodeString(read): Array.from({length: read()}, read) into a Uint8Array, *)
(* where a missing length is 0 and a missing byte is stored as 0             *)
decodeString(buf, pos) ==
  LET n == IF ByteAt(buf, pos) = Undefined THEN 0 ELSE ByteAt(buf, pos)
  IN [value |-> [i \in 1..n |-> IF ByteAt(buf, pos + i) = Undefined
                                THEN 0 ELSE ByteAt(buf, pos + i)],
      pos |-> pos + 1 + n]

RECURSIVE EmojiCounts(_, _)
EmojiCounts(elements, counts) ==
  IF elements = <<>> THEN counts
  ELSE LET emoji == Head(elements).emoji
       IN EmojiCounts(Tail(elements),
            MapSet(counts, emoji,
                   (IF MapHas(counts, emoji) THEN MapGet(counts, emoji) ELSE 0) + 1))

(* [...entries].sort((a, b) => b[1] - a[1]): a stable sort, largest count first *)
RECURSIVE SortByCountDesc(_)
SortByCountDesc(entries) ==
  IF entries = <<>> THEN <<>>
  ELSE LET rest == SortByCountDesc(SubSeq(entries, 1, Len(entries) - 1))
           x == entries[Len(entries)]
           n == Cardinality({i \in DOMAIN rest : rest[i].value >= x.value})
       IN SubSeq(rest, 1, n) \o <<x>> \o SubSeq(rest, n + 1, Len(rest))

(* getEmojisSorted(elements): the keys of the returned Map in order; the     *)
(* value of a key is its 0-based position                                    *)
getEmojisSorted(elements) ==
  LET sorted == SortByCountDesc(EmojiCounts(elements, <<>>))
  IN [i \in DOMAIN sorted |-> sorted[i].key]

EmojiIndex(dict, emoji) == (CHOOSE i \in DOMAIN dict : dict[i] = emoji) - 1

Min(a, b) == IF a < b THEN a ELSE b

(* a pair written as two absolute ids *)
WriteRecipeAbsolute(aId, bId) == encodeLEB128(aId) \o encodeLEB128(bId)

(* a pair written smaller id first, then the non-negative difference *)
WriteRecipeMinDelta(aId, bId) ==
  IF aId <= bId THEN encodeLEB128(aId) \o encodeLEB128(bId - aId)
  ELSE encodeLEB128(bId) \o encodeLEB128(aId - bId)

(* lines 461-464: the two varints of one recipe pair *)
WriteRecipe(aId, bId) == encodeLEB128(aId) \o encodeLEB128(bId - aId)

EncodeElement(elements, dict, element) ==
  encodeString(element.text)
    \o encodeLEB128(EmojiIndex(dict, element.emoji))
    \o <<(IF element.discovery THEN 128 ELSE 0) + Min(Len(element.recipes), 127)>>
    \o (IF Len(element.recipes) >= 127
        THEN encodeLEB128(Len(element.recipes) - 127) ELSE <<>>)
    \o Flatten([k \in DOMAIN element.recipes |->
                  WriteRecipe(elements[element.recipes[k].a].id,
                              elements[element.recipes[k].b].id)])

(* the array `out` of encodeBinaryV1, as new Uint8Array(out) stores it *)
BinaryV1Stream(s) ==
  LET dict == getEmojisSorted(s.elements)
      out == encodeLEB128(Len(s.elements))
               \o Flatten([i \in DOMAIN s.elements |->
                             EncodeElement(s.elements, dict, s.elements[i])])
               \o encodeLEB128(Len(dict))
               \o Flatten([i \in DOMAIN dict |-> encodeString(dict[i])])
  IN [i \in DOMAIN out |-> out[i] % 256]

(* compressBuffer(buffer, "deflate-raw"): the deflate coding is outside the  *)
(* repository; it is modelled by the one-stored-block stream, which every    *)
(* inflater accepts.  Inflate gives the payload, or fails.                   *)
Deflate(data) ==
  <<1, Len(data) % 256, Len(data) \div 256,
    255 - (Len(data) % 256), 255 - (Len(data) \div 256)>> \o data

InflateOk(c) ==
  /\ Len(c) >= 5
  /\ c[1] = 1
  /\ c[4] = 255 - c[2]
  /\ c[5] = 255 - c[3]
  /\ Len(c) = 5 + c[2] + 256 * c[3]

Inflate(c) == SubSeq(c, 6, Len(c))

addHeader(buffer, header) == header \o buffer

(* return appendHeader ? addHeader(compressed, ICB1_HEADER) : compressed *)
headed(compressed, appendHeader) ==
  [fmt |-> "bytes",
   bytes |-> IF appendHeader THEN addHeader(compressed, ICB1_HEADER) ELSE compressed]

encodeBinaryV1(s, appendHeader) == headed(Deflate(BinaryV1Stream(s)), appendHeader)

(* lines 326-330: `count` pairs are read one after another from pos and      *)
(* pushed on list: the first half of them, then the rest from where the      *)
(* first half ended.  Every read moves forward, so the comparison of the     *)
(* two positions only makes the first half be evaluated before the second    *)
(* is begun, which keeps the evaluation of a long list shallow.              *)
RECURSIVE readRecipes(_, _, _, _)
readRecipes(buf, pos, count, list) ==
  IF count <= 0 THEN [list |-> list, pos |-> pos]
  ELSE IF count = 1
  THEN LET a == decodeLEB128(buf, pos)
           d == decodeLEB128(buf, a.pos)
       IN [list |-> Append(list, <<a.value, d.value + a.value>>), pos |-> d.pos]
  ELSE LET first == readRecipes(buf, pos, count \div 2, list)
       IN IF first.pos > pos
          THEN readRecipes(buf, first.pos, count - (count \div 2), first.list)
          ELSE first

(* lines 314-321: the element is pushed and indexed unless it is "Nothing"; *)
(* a discovery is counted either way                                        *)
pushElement(s, id, text, emojiId, isDiscovery) ==
  LET element == NewElement(id, text, emojiId, isDiscovery)
      pushed == IF text # Nothing
                THEN [s EXCEPT !.elements = Append(@, element),
                               !.elementNames = MapSet(@, text, Len(s.elements) + 1)]
                ELSE s
  IN IF isDiscovery THEN [pushed EXCEPT !.stats.discoveries = @ + 1] ELSE pushed

(* lines 305-331, once the recipe list of the element is read *)
elementRead(st, id, text, emojiId, isDiscovery, list) ==
  [pos |-> list.pos,
   sf |-> pushElement(st.sf, id, text.value, emojiId.value, isDiscovery),
   recipes |-> Append(st.recipes, list.list)]

(* the flags byte read with the overflow varint taken only above 127 *)
flagsReadAbove(buf, st, id, text, emojiId, flags) ==
  LET isDiscovery == flags > 127
      base == flags - (IF isDiscovery THEN 128 ELSE 0)
      overflow == flags # Undefined /\ base > 127
      extra == decodeLEB128(buf, emojiId.pos + 1)
      recipeCount == IF flags = Undefined THEN 0
                     ELSE IF overflow THEN base + extra.value ELSE base
  IN elementRead(st, id, text, emojiId, isDiscovery,
                 readRecipes(buf, IF overflow THEN extra.pos ELSE emojiId.pos + 1,
                             recipeCount, <<>>))

(* lines 302-330, once the flags byte is read.  A missing flags byte makes  *)
(* recipeCount NaN, and a loop bounded by NaN does not run.                 *)
flagsRead(buf, st, id, text, emojiId, flags) ==
  LET isDiscovery == flags > 127
      base == flags - (IF isDiscovery THEN 128 ELSE 0)
      overflow == flags # Undefined /\ base >= 127
      extra == decodeLEB128(buf, emojiId.pos + 1)
      recipeCount == IF flags = Undefined THEN 0
                     ELSE IF overflow THEN base + extra.value ELSE base
  IN elementRead(st, id, text, emojiId, isDiscovery,
                 readRecipes(buf, IF overflow THEN extra.pos ELSE emojiId.pos + 1,
                             recipeCount, <<>>))

emojiIdRead(buf, st, id, text, emojiId) ==
  flagsRead(buf, st, id, text, emojiId, ByteAt(buf, emojiId.pos))

textRead(buf, st, id, text) ==
  emojiIdRead(buf, st, id, text, decodeLEB128(buf, text.pos))

(* lines 299-331: st is [pos, sf, recipes]; recipes[id + 1] is the list read *)
(* for stream id `id`                                                        *)
RECURSIVE readElements(_, _, _, _)
readElements(buf, st, id, elementCount) ==
  IF id >= elementCount THEN st
  ELSE readElements(buf, textRead(buf, st, id, decodeString(buf, st.pos)),
                    id + 1, elementCount)

RECURSIVE readEmojis(_, _, _, _)
readEmojis(buf, pos, count, emojis) ==
  IF count <= 0 THEN emojis
  ELSE LET str == decodeString(buf, pos)
       IN readEmojis(buf, str.pos, count - 1, Append(emojis, str.value))

(* emojis.get(element.emoji) || DEFAULT_EMOJI: a missing entry and the empty *)
(* string both give the default                                              *)
ResolveEmoji(emojis, index) ==
  IF index >= 0 /\ index < Len(emojis) /\ emojis[index + 1] # EmptyString
  THEN emojis[index + 1] ELSE DEFAULT_EMOJI

(* this.elements[i] for a number i: a reference, or 0 for undefined *)
ElementAt(elements, i) == IF i >= 0 /\ i < Len(elements) THEN i + 1 ELSE 0

RECURSIVE binaryPairs(_, _, _, _)
binaryPairs(s, result, pairs, list) ==
  IF list = <<>> THEN s
  ELSE LET a == ElementAt(s.elements, Head(list)[1])
           b == ElementAt(s.elements, Head(list)[2])
       IN IF a = 0 \/ b = 0 THEN binaryPairs(s, result, pairs, Tail(list))
          ELSE LET pairId == pair2int(s.elements[a].id, s.elements[b].id)
               IN IF pairId \in pairs THEN binaryPairs(s, result, pairs, Tail(list))
                  ELSE binaryPairs(pushRecipe(s, a, b, result), result,
                                   pairs \cup {pairId}, Tail(list))

RECURSIVE binaryRecipes(_, _, _)
binaryRecipes(s, recipes, id) ==
  IF id >= Len(recipes) THEN s
  ELSE LET result == ElementAt(s.elements, id)
       IN binaryRecipes(IF result = 0 THEN s
                        ELSE binaryPairs(s, result, {}, recipes[id + 1]),
                        recipes, id + 1)

(* lines 336-338: every element's emoji index becomes its emoji *)
resolveEmojis(s, emojis) ==
  [s EXCEPT !.elements =
     [i \in DOMAIN s.elements |->
        [s.elements[i] EXCEPT !.emoji = ResolveEmoji(emojis, s.elements[i].emoji)]]]

(* lines 333-369, st being what the elements loop left *)
elementsRead(buffer, st) ==
  LET emojiCount == decodeLEB128(buffer, st.pos)
  IN countElements(
       binaryRecipes(
         resolveEmojis(st.sf, readEmojis(buffer, emojiCount.pos, emojiCount.value, <<>>)),
         st.recipes, 0))

(* decodeBinaryV1 after decompression, on a fresh Savefile *)
decodeBinaryV1Stream(buffer, options) ==
  LET elementCount == decodeLEB128(buffer, 0)
  IN elementsRead(buffer,
       readElements(buffer,
                    [pos |-> elementCount.pos,
                     sf |-> [NewSavefile(options) EXCEPT !.type = "binaryV1"],
                     recipes |-> <<>>],
                    0, elementCount.value))

(* what a decode call gives its caller: a graph, null, or a rejection *)
NullResult == [kind |-> "null"]

Thrown(what) == [kind |-> "throw", error |-> what]

Returned(s) == [kind |-> "graph", sf |-> s]

(* decodeBinaryV1(raw): raw.slice(4) is inflated; a failing inflate rejects *)
decodeBinaryV1(raw, options) ==
  LET body == SubSeq(raw.bytes, 5, Len(raw.bytes))
  IN IF InflateOk(body) THEN Returned(decodeBinaryV1Stream(Inflate(body), options))
     ELSE Thrown("decompression")

(****************************** official codec *****************************)
OfficialItem(elements, item) ==
  LET refs == [k \in DOMAIN item.recipes |->
                 <<elements[item.recipes[k].a].id, elements[item.recipes[k].b].id>>]
  IN IF item.discovery
     THEN IF Len(item.recipes) > 0
          THEN [id |-> item.id, text |-> item.text, emoji |-> item.emoji,
                discovery |-> TRUE, recipes |-> refs]
          ELSE [id |-> item.id, text |-> item.text, emoji |-> item.emoji,
                discovery |-> TRUE]
     ELSE IF Len(item.recipes) > 0
          THEN [id |-> item.id, text |-> item.text, emoji |-> item.emoji, recipes |-> refs]
          ELSE [id |-> item.id, text |-> item.text, emoji |-> item.emoji]

(* encodeOfficial(): the value that is serialised and gzipped.  created and  *)
(* updated are clock readings and are left out of the model.                 *)
encodeOfficial(s) ==
  [fmt |-> "gzip",
   value |-> [name |-> s.name,
              items |-> [i \in DOMAIN s.elements |-> OfficialItem(s.elements, s.elements[i])]]]

(* the items left in file order *)
SortByIdNone(items) == items

(* data.items.sort((a, b) => a.id - b.id): stable, ascending *)
RECURSIVE SortById(_)
SortById(items) ==
  IF items = <<>> THEN <<>>
  ELSE LET rest == SortById(SubSeq(items, 1, Len(items) - 1))
           x == items[Len(items)]
           n == Cardinality({i \in DOMAIN rest : rest[i].id <= x.id})
       IN SubSeq(rest, 1, n) \o <<x>> \o SubSeq(rest, n + 1, Len(rest))

(* lines 235-253: the elements, and the items with item.id overwritten *)
RECURSIVE officialItems(_, _, _)
officialItems(s, items, k) ==
  IF k > Len(items) THEN [sf |-> s, items |-> items]
  ELSE IF items[k].text = Nothing THEN officialItems(s, items, k + 1)
  ELSE LET id == Len(s.elements)
           discovery == Truthy(items[k], "discovery")
           element == NewElement(id, items[k].text, items[k].emoji, discovery)
           s1 == [s EXCEPT !.elements = Append(@, element),
                           !.elementNames = MapSet(@, items[k].text, id + 1),
                           !.stats.discoveries = IF discovery THEN @ + 1 ELSE @]
       IN officialItems(s1, [items EXCEPT ![k].id = id], k + 1)

(* data.items[i]?.id *)
ItemId(items, i) == IF i >= 0 /\ i < Len(items) THEN items[i + 1].id ELSE Undefined

RECURSIVE officialPairs(_, _, _, _, _)
officialPairs(s, items, result, pairs, refs) ==
  IF refs = <<>> THEN s
  ELSE LET a == ElementAt(s.elements, ItemId(items, Head(refs)[1]))
           b == ElementAt(s.elements, ItemId(items, Head(refs)[2]))
       IN IF a = 0 \/ b = 0 THEN officialPairs(s, items, result, pairs, Tail(refs))
          ELSE LET pairId == pair2int(s.elements[a].id, s.elements[b].id)
               IN IF pairId \in pairs
                  THEN officialPairs(s, items, result, pairs, Tail(refs))
                  ELSE officialPairs(pushRecipe(s, a, b, result), items, result,
                                     pairs \cup {pairId}, Tail(refs))

RECURSIVE officialRecipes(_, _, _)
officialRecipes(s, items, k) ==
  IF k > Len(items) THEN s
  ELSE IF "recipes" \notin DOMAIN items[k] \/ items[k].text = Nothing
       THEN officialRecipes(s, items, k + 1)
       ELSE officialRecipes(
              officialPairs(s, items, ElementAt(s.elements, items[k].id), {},
                            items[k].recipes),
              items, k + 1)

(* decodeOfficial(raw) on a fresh Savefile *)
decodeOfficial(raw, options) ==
  LET data == raw.value
      s0 == [NewSavefile(options) EXCEPT !.type = "official", !.name = data.name]
      first == officialItems(s0, SortById(data.items), 1)
  IN countElements(officialRecipes(first.sf, first.items, 1))

(******************************** dispatch *********************************)
(* The leading bytes of a buffer.  Serialised JSON of an object starts with  *)
(* "{" and a gzip stream with 1f 8b.                                         *)
LeadingBytes(raw) ==
  IF raw.fmt = "bytes" THEN raw.bytes
  ELSE IF raw.fmt = "json" THEN <<123>>
  ELSE <<31, 139, 8>>

(* Savefile.decode(raw, options).  A byte buffer of the model never holds    *)
(* JSON text or a gzip stream, so those two parsers reject it.               *)
Decode(raw, options) ==
  LET type == getSaveFileType(LeadingBytes(raw)) IN
    IF type = "official"
    THEN IF raw.fmt = "gzip" THEN Returned(decodeOfficial(raw, options))
         ELSE Thrown("decompression")
    ELSE IF type = "binaryV2" THEN Thrown("Not implemented")
    ELSE IF type = "binaryV1"
    THEN decodeBinaryV1(raw, options)
    ELSE IF type = "legacy"
    THEN IF raw.fmt = "json" THEN Returned(decodeLegacy(raw, options))
         ELSE Thrown("JSON.parse")
    ELSE NullResult

(******************************* state *************************************)
VARIABLES
  sf,      \* the Savefile the caller builds and encodes
  call,    \* the last call made on it, with its arguments and what it returned
  io       \* the last exchange with a codec or the sniffer: the buffer and the outcome

vars == <<sf, call, io>>

NoCall == [op |-> "none"]

NoOutcome == [kind |-> "none"]

NoIo == [op |-> "none", out |-> NoOutcome]

Init ==
  /\ sf = NewSavefile(DefaultOptions)
  /\ call = NoCall
  /\ io = NoIo

AddElement ==
  \E text \in Texts, emoji \in Emojis, discovery \in BOOLEAN :
    LET r == addElement(sf, text, emoji, discovery) IN
      /\ Len(r.sf.elements) <= MaxElements
      /\ sf' = r.sf
      /\ call' = [op |-> "addElement", text |-> text, emoji |-> emoji,
                  discovery |-> discovery, ret |-> r.ret]
      /\ io' = NoIo

AddRecipe ==
  \E a \in 0..Len(sf.elements), b \in 0..Len(sf.elements), result \in 0..Len(sf.elements) :
    LET r == addRecipe(sf, a, b, result) IN
      /\ r.stats.recipes <= MaxRecipes
      /\ sf' = r
      /\ call' = [op |-> "addRecipe"]
      /\ io' = NoIo

Clear ==
  /\ sf.elements # <<>>
  /\ sf' = clear(sf)
  /\ call' = [op |-> "clear"]
  /\ io' = NoIo

(* Savefile.decode(raw) of a buffer an encoder made *)
decoded(op, raw) == [op |-> op, raw |-> raw, out |-> Decode(raw, DefaultOptions)]

(* decode(encodeLegacy(g)) *)
RoundTripLegacy ==
  /\ io' = decoded("legacy", encodeLegacy(sf))
  /\ call' = [op |-> "encodeLegacy"]
  /\ UNCHANGED sf

(* decode(await encodeBinaryV1(g)) *)
RoundTripBinaryV1 ==
  /\ io' = decoded("binaryV1", encodeBinaryV1(sf, TRUE))
  /\ call' = [op |-> "encodeBinaryV1"]
  /\ UNCHANGED sf

(* decode(await encodeOfficial(g)) *)
RoundTripOfficial ==
  /\ io' = decoded("official", encodeOfficial(sf))
  /\ call' = [op |-> "encodeOfficial"]
  /\ UNCHANGED sf

Next ==
  \/ AddElement
  \/ AddRecipe
  \/ Clear
  \/ RoundTripLegacy
  \/ RoundTripBinaryV1
  \/ RoundTripOfficial

Spec == Init /\ [][Next]_vars

(********************* decoders and sniffer on given buffers ***************)
(* Savefile.decode(raw) on the buffer held in io *)
DecodeInput ==
  /\ io.op = "input"
  /\ io' = [op |-> "decoded", raw |-> io.raw, out |-> Decode(io.raw, DefaultOptions)]
  /\ UNCHANGED <<sf, call>>

(* getSaveFileType(raw) on the buffer held in io *)
SniffInput ==
  /\ io.op = "input"
  /\ io' = [op |-> "sniffed", raw |-> io.raw,
            out |-> [kind |-> "type", type |-> getSaveFileType(LeadingBytes(io.raw))]]
  /\ UNCHANGED <<sf, call>>

Input(raw) == [op |-> "input", raw |-> raw, out |-> NoOutcome]

(* Binary-V1 buffers whose decompressed stream stops n bytes into what       *)
(* encodeBinaryV1 writes for a graph of two addElement calls and one         *)
(* addRecipe call                                                            *)
InitTruncated ==
  \E t1 \in Texts, t2 \in Texts, e1 \in Emojis, e2 \in Emojis,
     d1 \in BOOLEAN, d2 \in BOOLEAN :
    LET g2 == addElement(addElement(NewSavefile(DefaultOptions), t1, e1, d1).sf,
                         t2, e2, d2).sf
    IN \E a \in 0..Len(g2.elements), b \in 0..Len(g2.elements),
          result \in 0..Len(g2.elements) :
         LET g == addRecipe(g2, a, b, result)
             stream == BinaryV1Stream(g)
         IN \E n \in 0..(Len(stream) - 1) :
              /\ sf = g
              /\ call = NoCall
              /\ io = Input([fmt |-> "bytes",
                             bytes |-> addHeader(Deflate(Take(stream, n)), ICB1_HEADER)])

SpecTruncated == InitTruncated /\ [][DecodeInput]_vars

(* byte buffers of at most MaxBufLen bytes over the bytes the sniffer tells  *)
(* apart, and 0                                                              *)
MaxBufLen == 4

SniffBytes == {0, 31, 139, 123} \cup Range(ICB2_HEADER) \cup Range(ICB1_HEADER)

InitSniff ==
  \E n \in 0..MaxBufLen :
    \E bytes \in [1..n -> SniffBytes] :
      /\ sf = NewSavefile(DefaultOptions)
      /\ call = NoCall
      /\ io = Input([fmt |-> "bytes", bytes |-> bytes])

SpecSniff == InitSniff /\ [][SniffInput]_vars

(* official payloads of at most MaxItems items, in any on-disk order, with   *)
(* any declared ids; one item carries a recipes list of at most MaxRefs      *)
(* index pairs, and index n selects no item of an n-item array               *)
MaxItems == 2
MaxRefs == 1

DeclaredIds == {0, 1, 5}

OfficialTexts == {Water, Nothing}

RefLists(n) == UNION {[1..k -> (0..n) \X (0..n)] : k \in 0..MaxRefs}

InitOfficial ==
  \E n \in 1..MaxItems :
    \E ids \in [1..n -> DeclaredIds], texts \in [1..n -> OfficialTexts],
       owner \in 1..n, refs \in RefLists(n) :
      /\ sf = NewSavefile(DefaultOptions)
      /\ call = NoCall
      /\ io = Input([fmt |-> "gzip",
                     value |-> [name |-> SaveFileName,
                                items |-> [k \in 1..n |->
                                   IF k = owner
                                   THEN [id |-> ids[k], text |-> texts[k], emoji |-> Drop,
                                         recipes |-> refs]
                                   ELSE [id |-> ids[k], text |-> texts[k], emoji |-> Drop]]]])

SpecOfficial == InitOfficial /\ [][DecodeInput]_vars

(************** the flag/count byte of Binary-V1, both ways *****************)
FlagElements == 12    \* elements of the graph whose first element holds the recipes
MaxCount == 129       \* recipes the first element is grown to

(* the text of the i-th element: one capital letter *)
FlagText(i) == <<64 + i>>

RECURSIVE FlagGraphElements(_, _)
FlagGraphElements(d, k) ==
  IF k = 0 THEN NewSavefile(DefaultOptions)
  ELSE addElement(FlagGraphElements(d, k - 1), FlagText(k), Drop, d /\ k = 1).sf

(* the addRecipe calls number lo..hi on the first element, each with another *)
(* ordered pair, made in ascending order.  The graph after the lower half    *)
(* of the calls is inspected before the upper half is begun, so that it is   *)
(* evaluated first.                                                          *)
RECURSIVE FlagRecipes(_, _, _)
FlagRecipes(s, lo, hi) ==
  IF lo > hi THEN s
  ELSE IF lo = hi
  THEN addRecipe(s, ((lo - 1) \div FlagElements) + 1, ((lo - 1) % FlagElements) + 1, 1)
  ELSE LET lower == FlagRecipes(s, lo, (lo + hi) \div 2)
       IN IF lower.stats.recipes < lo THEN lower
          ELSE FlagRecipes(lower, ((lo + hi) \div 2) + 1, hi)

FlagGraph(d, n) == FlagRecipes(FlagGraphElements(d, FlagElements), 1, n)

InitFlags ==
  \E d \in BOOLEAN, n \in 0..MaxCount :
    /\ sf = FlagGraph(d, n)
    /\ call = NoCall
    /\ io = [op |-> "graph", out |-> NoOutcome]

(* lines 296-330 on the array `out` of encodeBinaryV1: the element count and *)
(* the first turn of the elements loop                                       *)
readFirstElement(buffer, elementCount) ==
  textRead(buffer,
           [pos |-> elementCount.pos,
            sf |-> [NewSavefile(DefaultOptions) EXCEPT !.type = "binaryV1"],
            recipes |-> <<>>],
           0, decodeString(buffer, elementCount.pos))

streamRead(stream) ==
  [op |-> "flags", stream |-> stream,
   out |-> [kind |-> "read", st |-> readFirstElement(stream, decodeLEB128(stream, 0))]]

(* encodeBinaryV1's byte array for the graph, then the decoder on its first   *)
(* element                                                                   *)
EncodeFlags ==
  /\ io.op = "graph"
  /\ io' = streamRead(BinaryV1Stream(sf))
  /\ call' = [op |-> "encodeBinaryV1"]
  /\ UNCHANGED sf

SpecFlags == InitFlags /\ [][EncodeFlags]_vars

(***************************************************************************)
(*                               properties                                *)
(***************************************************************************)
UnorderedSame(p, q) == {p.a, p.b} = {q.a, q.b}

HasCombination(recipes, p) == \E j \in DOMAIN recipes : UnorderedSame(recipes[j], p)

(* a recipe list without the pairs whose unordered combination came earlier *)
RECURSIVE DedupUnordered(_)
DedupUnordered(recipes) ==
  IF recipes = <<>> THEN <<>>
  ELSE LET init == DedupUnordered(SubSeq(recipes, 1, Len(recipes) - 1))
           last == recipes[Len(recipes)]
       IN IF HasCombination(init, last) THEN init ELSE Append(init, last)

NoNothing(s) == \A i \in DOMAIN s.elements : s.elements[i].text # Nothing

CountIn(seq, x) == Cardinality({k \in DOMAIN seq : seq[k] = x})

(* the use entries the recipe lists call for: one on a and one on b per pair *)
UsesCalledFor(elements, i, other, result) ==
  Cardinality({k \in DOMAIN elements[result].recipes :
                 elements[result].recipes[k] = [a |-> i, b |-> other]})
  + Cardinality({k \in DOMAIN elements[result].recipes :
                   elements[result].recipes[k] = [a |-> other, b |-> i]})

UsesMatchRecipes(elements) ==
  \A i \in DOMAIN elements :
    /\ \A k \in DOMAIN elements[i].uses :
         /\ elements[i].uses[k].other \in DOMAIN elements
         /\ elements[i].uses[k].result \in DOMAIN elements
    /\ \A other \in DOMAIN elements, result \in DOMAIN elements :
         CountIn(elements[i].uses, [other |-> other, result |-> result])
           = UsesCalledFor(elements, i, other, result)

TotalRecipes(elements) == SumSeq([i \in DOMAIN elements |-> Len(elements[i].recipes)])

(* C1: a recipe list never grows by a pair whose unordered combination it    *)
(* already holds, so addRecipe(a,b,r) and addRecipe(b,a,r), repeated in any  *)
(* order, leave one pair for {a,b} under r and stats.recipes one higher.     *)
C1_SymmetricDedup ==
  [][call'.op = "addRecipe" =>
       \A r \in DOMAIN sf.elements :
         Len(sf'.elements[r].recipes) > Len(sf.elements[r].recipes) =>
           /\ ~HasCombination(sf.elements[r].recipes,
                              sf'.elements[r].recipes[Len(sf'.elements[r].recipes)])
           /\ sf'.stats.recipes = sf.stats.recipes + 1]_vars

(* C2, as stated: decode(encodeLegacy(g)) is a graph of type legacy whose    *)
(* element sequence equals g.elements, recipe and use lists in order.        *)
C2_LegacyRoundTripExact ==
  io.op = "legacy" =>
    /\ io.out.kind = "graph"
    /\ io.out.sf.type = "legacy"
    /\ io.out.sf.elements = sf.elements

SameIdentity(d, g) ==
  /\ Len(d) = Len(g)
  /\ \A i \in DOMAIN g :
       /\ d[i].id = g[i].id
       /\ d[i].text = g[i].text
       /\ d[i].emoji = g[i].emoji
       /\ d[i].discovery = g[i].discovery

(* C2, amended: for a graph g without an element named "Nothing",            *)
(* decode(encodeLegacy(g)) is a graph of type legacy with the same ids,      *)
(* texts, emojis and discovery flags; each recipe list is g's list without   *)
(* the pairs whose unordered combination came earlier in it, and the list    *)
(* of an element whose text is "__proto__" comes back empty; each use list   *)
(* holds, in some order, the entries of the pairs that remain.               *)
C2_LegacyRoundTrip ==
  (io.op = "legacy" /\ NoNothing(sf)) =>
    /\ io.out.kind = "graph"
    /\ io.out.sf.type = "legacy"
    /\ SameIdentity(io.out.sf.elements, sf.elements)
    /\ \A i \in DOMAIN sf.elements :
         io.out.sf.elements[i].recipes =
           (IF sf.elements[i].text = ProtoKey THEN <<>>
            ELSE DedupUnordered(sf.elements[i].recipes))
    /\ UsesMatchRecipes(io.out.sf.elements)

(* C2 witness: a round trip of a graph without "Nothing" in which a pair was *)
(* dropped or a use list came back in another order                          *)
C2_Witness ==
  /\ io.op = "legacy"
  /\ NoNothing(sf)
  /\ io.out.kind = "graph"
  /\ io.out.sf.elements # sf.elements
  /\ \E i \in DOMAIN sf.elements : Len(io.out.sf.elements[i].recipes) >= 1

(* C3, as stated: decode(encodeBinaryV1(g)) is a graph of type binaryV1 with *)
(* g's stats and an element sequence equal to g.elements.                    *)
C3_BinaryRoundTripExact ==
  io.op = "binaryV1" =>
    /\ io.out.kind = "graph"
    /\ io.out.sf.type = "binaryV1"
    /\ io.out.sf.stats = sf.stats
    /\ io.out.sf.elements = sf.elements

(* C3, amended: for a graph g without an element named "Nothing" (texts and  *)
(* emojis of at most 255 bytes), decode(encodeBinaryV1(g)) is a graph of     *)
(* type binaryV1 with the same ids, texts and discovery flags and the same   *)
(* emojis, an empty emoji coming back as the default glyph; each recipe list *)
(* is g's list, a/b order kept, without the pairs whose unordered            *)
(* combination came earlier in it; each use list holds, in some order, the   *)
(* entries of the pairs that remain; stats.elements and stats.discoveries    *)
(* equal g's and stats.recipes counts the pairs that remain.                 *)
C3_BinaryRoundTrip ==
  (io.op = "binaryV1" /\ NoNothing(sf)) =>
    /\ io.out.kind = "graph"
    /\ io.out.sf.type = "binaryV1"
    /\ Len(io.out.sf.elements) = Len(sf.elements)
    /\ \A i \in DOMAIN sf.elements :
         /\ io.out.sf.elements[i].id = sf.elements[i].id
         /\ io.out.sf.elements[i].text = sf.elements[i].text
         /\ io.out.sf.elements[i].discovery = sf.elements[i].discovery
         /\ io.out.sf.elements[i].emoji =
              (IF sf.elements[i].emoji = EmptyString THEN DEFAULT_EMOJI
               ELSE sf.elements[i].emoji)
         /\ io.out.sf.elements[i].recipes = DedupUnordered(sf.elements[i].recipes)
    /\ UsesMatchRecipes(io.out.sf.elements)
    /\ io.out.sf.stats.elements = sf.stats.elements
    /\ io.out.sf.stats.discoveries = sf.stats.discoveries
    /\ io.out.sf.stats.recipes = TotalRecipes(io.out.sf.elements)

(* C3 witness: a Binary-V1 round trip of a graph without "Nothing" that has  *)
(* a pair stored with the larger id first and an empty emoji                 *)
C3_Witness ==
  /\ io.op = "binaryV1"
  /\ NoNothing(sf)
  /\ io.out.kind = "graph"
  /\ \E i \in DOMAIN sf.elements : sf.elements[i].emoji = EmptyString
  /\ \E i \in DOMAIN sf.elements : \E k \in DOMAIN sf.elements[i].recipes :
       /\ sf.elements[i].recipes[k].a > sf.elements[i].recipes[k].b
       /\ io.out.sf.elements[i].recipes[1] = sf.elements[i].recipes[k]

IdIsIndex(elements) == \A i \in DOMAIN elements : elements[i].id = i - 1

(* C4: in the graph under construction and in every graph a decoder returns, *)
(* each element's id is its index in the element sequence.                   *)
C4_IdIsIndex ==
  /\ IdIsIndex(sf.elements)
  /\ io.out.kind = "graph" => IdIsIndex(io.out.sf.elements)

(* the recipes of a graph by the texts of result and ingredients *)
RecipeTexts(elements) ==
  UNION {{<<elements[r].text, elements[elements[r].recipes[k].a].text,
            elements[elements[r].recipes[k].b].text>> :
            k \in DOMAIN elements[r].recipes} : r \in DOMAIN elements}

(* C5: when the encoded graph has an element named "Nothing", the graph each *)
(* of the three decoders returns has no such element, and every recipe it    *)
(* holds is a recipe of the input that does not name "Nothing".              *)
C5_NothingDiscarded ==
  (/\ io.op \in {"legacy", "official", "binaryV1"}
   /\ io.out.kind = "graph"
   /\ ~NoNothing(sf)) =>
    /\ NoNothing(io.out.sf)
    /\ RecipeTexts(io.out.sf.elements) \subseteq
         {t \in RecipeTexts(sf.elements) : Nothing \notin {t[1], t[2], t[3]}}

(* C6, as stated: a buffer of length 0 or 1 is sniffed as unrecognized.      *)
C6_ShortBufferUnrecognized ==
  (io.op = "sniffed" /\ Len(io.raw.bytes) <= 1) => io.out.type = "null"

(* C6, amended: a buffer of length 0 or 1 is sniffed without a fault, as     *)
(* legacy when it is the single byte 0x7B and as unrecognized otherwise.     *)
C6_ShortBuffer ==
  (io.op = "sniffed" /\ Len(io.raw.bytes) <= 1) =>
    io.out.type = (IF io.raw.bytes = <<123>> THEN "legacy" ELSE "null")

(* C6 witness: the one-byte buffer 0x7B has been sniffed *)
C6_Witness ==
  /\ io.op = "sniffed"
  /\ io.raw.bytes = <<123>>
  /\ io.out.type = "legacy"

(* C7: decoding a Binary-V1 buffer whose decompressed stream is truncated    *)
(* ends in a failure; no graph is returned.                                  *)
C7_TruncatedStreamFails ==
  io.op = "decoded" => io.out.kind = "throw"

(* C8: addElement on a text the graph already holds returns the element that *)
(* holds it, with its id, emoji and discovery flag as they were, and leaves  *)
(* the element sequence, the by-text index and the stats unchanged.          *)
C8_AddElementIdempotent ==
  [][(call'.op = "addElement" /\ MapHas(sf.elementNames, call'.text)) =>
       /\ call'.ret = MapGet(sf.elementNames, call'.text)
       /\ sf.elements[call'.ret].text = call'.text
       /\ sf'.elements = sf.elements
       /\ sf'.elementNames = sf.elementNames
       /\ sf'.stats = sf.stats]_vars

(* C8 witness: addElement was called on a held text with another emoji and   *)
(* another discovery flag than the element has                               *)
C8_Witness ==
  /\ call.op = "addElement"
  /\ sf.elements[call.ret].text = call.text
  /\ sf.elements[call.ret].emoji # call.emoji
  /\ sf.elements[call.ret].discovery # call.discovery

(* the place of on-disk item j after the stable sort on declared id *)
SortedPos(items, j) ==
  1 + Cardinality({i \in DOMAIN items : items[i].id < items[j].id})
    + Cardinality({i \in 1..(j - 1) : items[i].id = items[j].id})

(* the element made from on-disk item j, 0 for a skipped item *)
ElementOfItem(items, j) ==
  IF items[j].text = Nothing THEN 0
  ELSE 1 + Cardinality({i \in DOMAIN items :
                          /\ items[i].text # Nothing
                          /\ SortedPos(items, i) < SortedPos(items, j)})

(* what index v selects when it counts in the on-disk order *)
SelectOnDisk(items, v) ==
  IF v + 1 \in DOMAIN items THEN ElementOfItem(items, v + 1) ELSE 0

(* what index v selects when it counts in the sorted order; a skipped item   *)
(* is looked up by its declared id in the element sequence                   *)
SelectSorted(items, v, elements) ==
  IF v + 1 \notin DOMAIN items THEN 0
  ELSE LET j == CHOOSE i \in DOMAIN items : SortedPos(items, i) = v + 1
       IN IF items[j].text # Nothing THEN ElementOfItem(items, j)
          ELSE ElementAt(elements, items[j].id)

(* what index v selects, counting in the sorted or in the on-disk order *)
Select(items, elements, sorted, v) ==
  IF sorted THEN SelectSorted(items, v, elements) ELSE SelectOnDisk(items, v)

ResolvedPairs(items, elements, sorted, refs) ==
  Flatten([k \in DOMAIN refs |->
             LET a == Select(items, elements, sorted, refs[k][1])
                 b == Select(items, elements, sorted, refs[k][2])
             IN IF a = 0 \/ b = 0 THEN <<>> ELSE <<[a |-> a, b |-> b]>>])

OfficialRecipesAre(items, elements, sorted) ==
  /\ Len(elements) = Cardinality({j \in DOMAIN items : items[j].text # Nothing})
  /\ \A j \in DOMAIN items :
       items[j].text # Nothing =>
         elements[ElementOfItem(items, j)].recipes =
           (IF "recipes" \in DOMAIN items[j]
            THEN DedupUnordered(ResolvedPairs(items, elements, sorted, items[j].recipes))
            ELSE <<>>)

RECURSIVE Base128(_)
Base128(n) == IF n < 128 THEN <<n>> ELSE <<(n % 128) + 128>> \o Base128(n \div 128)

(* the varint of the 32-bit two's-complement image of a negative difference *)
NegativeVarint(d) ==
  <<(d % 128) + 128, ((d \div 128) % 128) + 128, ((d \div 16384) % 128) + 128,
    ((d \div 2097152) % 128) + 128, (d \div 268435456) % 16>>

PairMinDelta(aId, bId) ==
  IF aId <= bId THEN Base128(aId) \o Base128(bId - aId)
  ELSE Base128(bId) \o Base128(aId - bId)

PairAsStored(aId, bId) ==
  Base128(aId) \o (IF bId >= aId THEN Base128(bId - aId) ELSE NegativeVarint(bId - aId))

(* the bytes of element i's recipe pairs, each pair written by one of the    *)
(* two rules                                                                 *)
PairBytes(elements, i, minFirst) ==
  Flatten([k \in DOMAIN elements[i].recipes |->
             LET aId == elements[elements[i].recipes[k].a].id
                 bId == elements[elements[i].recipes[k].b].id
             IN IF minFirst THEN PairMinDelta(aId, bId) ELSE PairAsStored(aId, bId)])

(* the encoded stream is: the element count; per element its text, emoji    *)
(* index, flag byte and the bytes of its pairs; then the emoji dictionary    *)
StreamHasPairs(stream, s, minFirst) ==
  LET dict == getEmojisSorted(s.elements) IN
    stream =
      Base128(Len(s.elements))
        \o Flatten([i \in DOMAIN s.elements |->
                      encodeString(s.elements[i].text)
                        \o Base128(EmojiIndex(dict, s.elements[i].emoji))
                        \o <<(IF s.elements[i].discovery THEN 128 ELSE 0)
                               + Len(s.elements[i].recipes)>>
                        \o PairBytes(s.elements, i, minFirst)])
        \o Base128(Len(dict))
        \o Flatten([i \in DOMAIN dict |-> encodeString(dict[i])])

(* C10, as stated: for every recipe pair encodeBinaryV1 writes the smaller   *)
(* ingredient id and then the non-negative difference to the larger one.     *)
C10_MinThenDelta ==
  io.op = "binaryV1" =>
    /\ InflateOk(SubSeq(io.raw.bytes, 5, Len(io.raw.bytes)))
    /\ StreamHasPairs(Inflate(SubSeq(io.raw.bytes, 5, Len(io.raw.bytes))), sf, TRUE)

(* C10, amended: for every recipe pair encodeBinaryV1 writes the id of the   *)
(* pair's a ingredient and then b.id - a.id; a negative difference is        *)
(* written as the five-byte varint of its 32-bit two's-complement image.     *)
C10_AThenDelta ==
  io.op = "binaryV1" =>
    /\ InflateOk(SubSeq(io.raw.bytes, 5, Len(io.raw.bytes)))
    /\ StreamHasPairs(Inflate(SubSeq(io.raw.bytes, 5, Len(io.raw.bytes))), sf, FALSE)

(* C10 witness: a graph holding a pair with a.id > b.id was encoded *)
C10_Witness ==
  /\ io.op = "binaryV1"
  /\ \E i \in DOMAIN sf.elements : \E k \in DOMAIN sf.elements[i].recipes :
       sf.elements[sf.elements[i].recipes[k].a].id
         > sf.elements[sf.elements[i].recipes[k].b].id

(* the bytes of the first element up to its flag/count byte: text, emoji     *)
(* index                                                                     *)
FirstElementHead(s) ==
  Base128(Len(s.elements)) \o encodeString(s.elements[1].text) \o <<0>>

(* d*128 + min(n,127), then the varint of n - 127 exactly when n >= 127 *)
FlagCount(d, n) ==
  <<(IF d THEN 128 ELSE 0) + (IF n < 127 THEN n ELSE 127)>>
    \o (IF n >= 127 THEN Base128(n - 127) ELSE <<>>)

(* C11: for every discovery flag d and recipe count n, encodeBinaryV1 writes *)
(* the byte d*128 + min(n,127), followed by the varint of n - 127 exactly    *)
(* when n >= 127 and then by the pairs; the decoder reads back the same d    *)
(* and a list of n pairs, and stops right after the last pair.               *)
C11_FlagCountRoundTrip ==
  io.op = "flags" =>
    LET d == sf.elements[1].discovery
        n == Len(sf.elements[1].recipes)
        expected == FirstElementHead(sf) \o FlagCount(d, n) \o PairBytes(sf.elements, 1, FALSE)
    IN /\ Take(io.stream, Len(expected)) = expected
       /\ Len(io.out.st.sf.elements) = 1
       /\ io.out.st.sf.elements[1].text = sf.elements[1].text
       /\ io.out.st.sf.elements[1].discovery = d
       /\ Len(io.out.st.recipes[1]) = n
       /\ io.out.st.pos = Len(expected)

(* C11 witness: a discovered element with exactly 127 recipes went through,  *)
(* its count on the overflow path with a zero varint                         *)
C11_Witness ==
  /\ io.op = "flags"
  /\ sf.elements[1].discovery
  /\ Len(sf.elements[1].recipes) = 127
  /\ Len(io.out.st.recipes[1]) = 127
  /\ SubSeq(io.stream, Len(FirstElementHead(sf)) + 1, Len(FirstElementHead(sf)) + 2)
       = <<255, 0>>

(* the three counters agree with the element sequence *)
StatsMatch(s) ==
  /\ s.stats.elements = Len(s.elements)
  /\ s.stats.discoveries = Cardinality({i \in DOMAIN s.elements : s.elements[i].discovery})
  /\ s.stats.recipes = TotalRecipes(s.elements)

(* C12: in the graph under construction and in every graph a decoder         *)
(* returns, stats.elements is the number of elements, stats.discoveries the  *)
(* number of elements with the discovery flag and stats.recipes the number   *)
(* of pairs over all recipe lists.                                           *)
C12_StatsMatch ==
  /\ StatsMatch(sf)
  /\ io.out.kind = "graph" => StatsMatch(io.out.sf)
====
